---- MODULE Spec2Model ----
(***************************************************************************)
(* Model of qutel_car_events/api/uom_helper.py: six remote-callable        *)
(* operations over the host ERP document store (Item master data, the      *)
(* Stock Settings single, the Custom Field table, the platform             *)
(* conversion-factor lookup, the translation catalogue and the Error Log). *)
(*                                                                         *)
(* Numbers are integers; rate / conversion_factor is kept as an exact      *)
(* reduced fraction.  A Python exception is a record [raised |-> TRUE],    *)
(* a normal return a record [raised |-> FALSE, value |-> v].               *)
(***************************************************************************)
EXTENDS Integers, Sequences, FiniteSets, TLC

VARIABLES
    items,              \* Item master data: item code -> Item document or NoItem
    allow_uom_conversion, \* Stock Settings.allow_uom_with_conversion_rate_defined_in_item
    custom_fields,      \* outcome of the Custom Field query for Opportunity Item
    conversion_lookup,  \* erpnext get_conversion_factor("ITEM-A", uom), per uom
    lang,               \* language of the session, decides what _() returns
    error_log,          \* number of Error Log documents
    call,               \* the last call: operation name and arguments
    result              \* the value the last call returned

vars == <<items, allow_uom_conversion, custom_fields, conversion_lookup,
          lang, error_log, call, result>>

store == <<items, allow_uom_conversion, custom_fields, conversion_lookup, lang>>

-----------------------------------------------------------------------------
(* Bounds *)

MaxRows == 2        \* rows of an item's UOM Conversion Detail table
MaxItems == 2       \* line items of one opportunity
MaxLog == 2         \* Error Log documents

-----------------------------------------------------------------------------
(* The document store *)

ItemCodes == {"ITEM-A"}
UOMS == {"Nos", "Box"}
Factors == {1, 12}
NoItem == [doctype |-> "missing"]

UomRows == [uom : UOMS, conversion_factor : Factors]

RowLists == UNION {[1..n -> UomRows] : n \in 0..MaxRows}

ItemDocs == [doctype : {"Item"}, stock_uom : UOMS, uoms : RowLists]

expected_fields == <<"custom_stock_qty", "custom_stock_uom_rate", "custom__people_qty">>

Range(s) == {s[i] : i \in 1..Len(s)}

SqlError == [raised |-> TRUE, exc |-> "OperationalError"]

CustomFieldOutcomes ==
    {[raised |-> FALSE, value |-> fs] : fs \in SUBSET Range(expected_fields)}
        \cup {SqlError}

LookupNone == [kind |-> "none"]
LookupRaises == [kind |-> "raise"]
LookupOutcomes ==
    {LookupNone, LookupRaises,
     [kind |-> "dict", conversion_factor |-> 5]}

Langs == {"en", "ar"}

-----------------------------------------------------------------------------
(* Python values *)

Return(v) == [raised |-> FALSE, value |-> v]
Raise(e) == [raised |-> TRUE, exc |-> e]

\* frappe._ : the message in the session language
Translate(msgid) == [text |-> msgid, lang |-> lang]

\* "{0}".format(str(e)) on a translated message
Format(msg, arg) == [text |-> msg.text, lang |-> msg.lang, arg |-> arg]

\* "required" in message.lower(): only the untranslated English text has it
ContainsRequired(msg) ==
    /\ msg.lang = "en"
    /\ msg.text \in {"Item Code is required", "Item Code and UOM are required"}

\* try: body / except Exception as e: frappe.log_error(...); return
\* {"success": False, "message": _(msgid).format(str(e))}: the value returned
\* and whether frappe.log_error ran
TryExcept(body, msgid) ==
    IF body.raised
    THEN [ret |-> [success |-> FALSE,
                   message |-> Format(Translate(msgid), body.exc)],
          logged |-> TRUE]
    ELSE [ret |-> body.value, logged |-> FALSE]

\* frappe.get_cached_doc("Item", item_code)
get_cached_doc(item_code) ==
    IF item_code \in ItemCodes /\ items[item_code] # NoItem
    THEN Return(items[item_code])
    ELSE Raise("DoesNotExistError")

\* erpnext.stock.get_item_details.get_conversion_factor(item_code, uom)
get_conversion_factor(item_code, uom) ==
    IF item_code \notin ItemCodes \/ uom \notin UOMS
    THEN Raise("DoesNotExistError")
    ELSE LET o == conversion_lookup[uom]
         IN  IF o = LookupRaises THEN Raise("ValidationError") ELSE Return(o)

\* result and "conversion_factor" in result
HasFactor(r) == r # LookupNone /\ "conversion_factor" \in DOMAIN r

\* is_stock_uom taken from the row's position instead of its uom
UomEntries_FirstIsStock(item) ==
    [i \in 1..Len(item.uoms) |->
        [uom |-> item.uoms[i].uom,
         conversion_factor |-> item.uoms[i].conversion_factor,
         is_stock_uom |-> (i = 1)]]

\* [ {uom, conversion_factor, is_stock_uom} for uom_detail in item.uoms ]
UomEntries(item) ==
    [i \in 1..Len(item.uoms) |->
        [uom |-> item.uoms[i].uom,
         conversion_factor |-> item.uoms[i].conversion_factor,
         is_stock_uom |-> (item.uoms[i].uom = item.stock_uom)]]

\* [ {stock_uom, 1.0, True} ]
StockUomOnly(stock_uom) ==
    <<[uom |-> stock_uom, conversion_factor |-> 1, is_stock_uom |-> TRUE]>>

IsStock(e) == e.is_stock_uom
NotStock(e) == ~e.is_stock_uom

\* the sort without reverse=True: False first
SortedStockFirst_Ascending(uom_list) ==
    SelectSeq(uom_list, NotStock) \o SelectSeq(uom_list, IsStock)

\* sorted(uom_list, key=lambda x: x["is_stock_uom"], reverse=True): a stable
\* sort on a boolean key, True first
SortedStockFirst(uom_list) ==
    SelectSeq(uom_list, IsStock) \o SelectSeq(uom_list, NotStock)

-----------------------------------------------------------------------------
(* get_item_uoms_with_conversion *)

UomsWithConversionBody(item_code) ==
    LET got == get_cached_doc(item_code)
    IN  IF got.raised THEN got
        ELSE LET item == got.value
             IN  IF item = NoItem
                 THEN Return([success |-> FALSE, message |-> Translate("Item not found")])
                 ELSE Return(
                    [success |-> TRUE,
                     item_code |-> item_code,
                     stock_uom |-> item.stock_uom,
                     uoms |-> IF allow_uom_conversion /\ Len(item.uoms) > 0
                              THEN SortedStockFirst(UomEntries(item))
                              ELSE StockUomOnly(item.stock_uom),
                     default_uom |-> item.stock_uom,
                     allow_uom_conversion |-> allow_uom_conversion])

\* the body run outside the try statement
get_item_uoms_with_conversion_NoTry(item_code) ==
    IF item_code = ""
    THEN [ret |-> [success |-> FALSE, message |-> Translate("Item Code is required")],
          logged |-> FALSE]
    ELSE [ret |-> IF UomsWithConversionBody(item_code).raised
                  THEN UomsWithConversionBody(item_code)
                  ELSE UomsWithConversionBody(item_code).value,
          logged |-> FALSE]

get_item_uoms_with_conversion(item_code) ==
    IF item_code = ""
    THEN [ret |-> [success |-> FALSE, message |-> Translate("Item Code is required")],
          logged |-> FALSE]
    ELSE TryExcept(UomsWithConversionBody(item_code), "Error fetching UOM data: {0}")

-----------------------------------------------------------------------------
(* get_uom_conversion_factor *)

UomConversionFactorBody(item_code, uom) ==
    LET got == get_conversion_factor(item_code, uom)
    IN  IF got.raised THEN got
        ELSE IF HasFactor(got.value)
             THEN Return([success |-> TRUE,
                          item_code |-> item_code,
                          uom |-> uom,
                          conversion_factor |-> got.value.conversion_factor])
             ELSE Return([success |-> FALSE,
                          message |-> Format(Translate("Conversion factor not found for {0} in {1}"),
                                             <<uom, item_code>>)])

get_uom_conversion_factor(item_code, uom) ==
    IF item_code = "" \/ uom = ""
    THEN [ret |-> [success |-> FALSE, message |-> Translate("Item Code and UOM are required")],
          logged |-> FALSE]
    ELSE TryExcept(UomConversionFactorBody(item_code, uom),
                   "Error fetching conversion factor: {0}")

-----------------------------------------------------------------------------
(* get_item_uoms_and_conversion *)

\* for uom_detail in item_doc.uoms: if uom_detail.uom == uom: ... break
RECURSIVE FirstRow(_, _, _)
FirstRow(rows, uom, i) ==
    IF i > Len(rows) THEN 0
    ELSE IF rows[i].uom = uom THEN i
    ELSE FirstRow(rows, uom, i + 1)

\* the search without its break: the last matching row wins
RECURSIVE LastRow(_, _, _)
LastRow(rows, uom, i) ==
    IF i < 1 THEN 0
    ELSE IF rows[i].uom = uom THEN i
    ELSE LastRow(rows, uom, i - 1)

RequestedFactor_NoBreak(item_code, item_doc, uom) ==
    LET i == LastRow(item_doc.uoms, uom, Len(item_doc.uoms))
    IN  IF uom = "" THEN Return([conversion_factor |-> 1, looked_up |-> FALSE])
        ELSE IF i > 0
        THEN Return([conversion_factor |-> item_doc.uoms[i].conversion_factor,
                     looked_up |-> FALSE])
        ELSE IF uom = item_doc.stock_uom
        THEN Return([conversion_factor |-> 1, looked_up |-> FALSE])
        ELSE LET got == get_conversion_factor(item_code, uom)
             IN  IF got.raised
                 THEN [raised |-> TRUE, exc |-> got.exc, looked_up |-> TRUE]
                 ELSE IF HasFactor(got.value)
                 THEN Return([conversion_factor |-> got.value.conversion_factor,
                              looked_up |-> TRUE])
                 ELSE Return([conversion_factor |-> 1, looked_up |-> TRUE])

\* the conversion factor searched for the required UOM (lines 321-335);
\* looked_up tells whether the platform lookup was called
RequestedFactor(item_code, item_doc, uom) ==
    LET i == FirstRow(item_doc.uoms, uom, 1)
    IN  IF uom = "" THEN Return([conversion_factor |-> 1, looked_up |-> FALSE])
        ELSE IF i > 0
        THEN Return([conversion_factor |-> item_doc.uoms[i].conversion_factor,
                     looked_up |-> FALSE])
        ELSE IF uom = item_doc.stock_uom
        THEN Return([conversion_factor |-> 1, looked_up |-> FALSE])
        ELSE LET got == get_conversion_factor(item_code, uom)
             IN  IF got.raised
                 THEN [raised |-> TRUE, exc |-> got.exc, looked_up |-> TRUE]
                 ELSE IF HasFactor(got.value)
                 THEN Return([conversion_factor |-> got.value.conversion_factor,
                              looked_up |-> TRUE])
                 ELSE Return([conversion_factor |-> 1, looked_up |-> TRUE])

UomsAndConversionFailure(message) ==
    [success |-> FALSE,
     message |-> message,
     uoms |-> <<>>,
     conversion_factor |-> 1,
     stock_uom |-> "None"]

\* line 343 searching the factor of a UOM other than the stock UOM, as the
\* flag-set branch does
UomsAndConversionBody_SearchWithoutFlag(item_code, uom) ==
    IF item_code = ""
    THEN Return([dict |-> UomsAndConversionFailure(Translate("Item Code is required")),
                 looked_up |-> FALSE])
    ELSE IF get_cached_doc(item_code).raised
    THEN [raised |-> TRUE, exc |-> get_cached_doc(item_code).exc, looked_up |-> FALSE]
    ELSE IF RequestedFactor(item_code, get_cached_doc(item_code).value, uom).raised
    THEN RequestedFactor(item_code, get_cached_doc(item_code).value, uom)
    ELSE Return(
        [dict |-> [success |-> TRUE,
                   uoms |-> IF allow_uom_conversion
                               /\ Len(get_cached_doc(item_code).value.uoms) > 0
                            THEN UomEntries(get_cached_doc(item_code).value)
                            ELSE StockUomOnly(get_cached_doc(item_code).value.stock_uom),
                   conversion_factor |->
                        RequestedFactor(item_code, get_cached_doc(item_code).value,
                                        uom).value.conversion_factor,
                   stock_uom |-> get_cached_doc(item_code).value.stock_uom,
                   allow_custom_uom |-> allow_uom_conversion],
         looked_up |-> RequestedFactor(item_code, get_cached_doc(item_code).value,
                                       uom).value.looked_up])

UomsAndConversionBody(item_code, uom) ==
    IF item_code = ""
    THEN Return([dict |-> UomsAndConversionFailure(Translate("Item Code is required")),
                 looked_up |-> FALSE])
    ELSE
    LET got == get_cached_doc(item_code)
    IN  IF got.raised
        THEN [raised |-> TRUE, exc |-> got.exc, looked_up |-> FALSE]
        ELSE LET item_doc == got.value
             IN  IF item_doc = NoItem
                 THEN Return([dict |-> UomsAndConversionFailure(
                                         Format(Translate("Item {0} not found"), item_code)),
                              looked_up |-> FALSE])
                 ELSE IF allow_uom_conversion /\ Len(item_doc.uoms) > 0
                 THEN LET f == RequestedFactor(item_code, item_doc, uom)
                      IN  IF f.raised THEN f
                          ELSE Return(
                            [dict |-> [success |-> TRUE,
                                       uoms |-> UomEntries(item_doc),
                                       conversion_factor |-> f.value.conversion_factor,
                                       stock_uom |-> item_doc.stock_uom,
                                       allow_custom_uom |-> allow_uom_conversion],
                             looked_up |-> f.value.looked_up])
                 ELSE Return(
                        [dict |-> [success |-> TRUE,
                                   uoms |-> StockUomOnly(item_doc.stock_uom),
                                   conversion_factor |-> 1,
                                   stock_uom |-> item_doc.stock_uom,
                                   allow_custom_uom |-> allow_uom_conversion],
                         looked_up |-> FALSE])

\* lines 353-361: the except clause around the body
UomsAndConversionTryExcept(body) ==
    IF body.raised
    THEN [ret |-> UomsAndConversionFailure(
                    Format(Translate("Error fetching UOM data: {0}"), body.exc)),
          logged |-> TRUE,
          looked_up |-> body.looked_up]
    ELSE [ret |-> body.value.dict, logged |-> FALSE,
          looked_up |-> body.value.looked_up]

\* the value returned, whether frappe.log_error ran, whether the platform
\* lookup was called
get_item_uoms_and_conversion(item_code, uom) ==
    UomsAndConversionTryExcept(UomsAndConversionBody(item_code, uom))

-----------------------------------------------------------------------------
(* JSON values and frappe.utils.flt *)

Missing == [t |-> "missing"]     \* the key is not in the dict
Null == [t |-> "null"]
Str == [t |-> "str"]             \* a string that is not a number
Num(n) == [t |-> "num", v |-> n]
BadJson == [t |-> "badjson"]     \* a str json.loads rejects
NotAList == [t |-> "dict"]       \* valid JSON, not a list

\* dict.get(key, default)
Get(d, key, default) == IF d[key] = Missing THEN default ELSE d[key]

\* flt(s): float(s), 0.0 when float() raises
flt(s) == IF s.t = "num" THEN s.v ELSE 0

Abs(n) == IF n < 0 THEN -n ELSE n

RECURSIVE GCD(_, _)
GCD(a, b) == IF b = 0 THEN a ELSE GCD(b, a % b)

\* the exact quotient n / d as a reduced fraction with a positive denominator
Fraction(n, d) ==
    LET g == GCD(Abs(n), Abs(d))
        sgn == IF d < 0 THEN -1 ELSE 1
    IN  [num |-> sgn * (n \div g), den |-> sgn * (d \div g)]

\* Python's a / b
TrueDiv(a, b) == IF b = 0 THEN Raise("ZeroDivisionError") ELSE Return(Fraction(a, b))

\* names bound at module level (lines 11-13) and by the imports inside the
\* body of each function (lines 136-137, 206-207)
ModuleNames == {"frappe", "_", "Dict", "List", "Optional", "Any"}
CalculationsImports == {"json", "flt"}
ValidateImports == {"json", "getdate", "date_diff"}

-----------------------------------------------------------------------------
(* get_opportunity_calculations *)

\* the guard written as conversion_factor >= 0
StockUomRate_NonNegative(rate, conversion_factor) ==
    IF conversion_factor >= 0 THEN TrueDiv(rate, conversion_factor)
    ELSE Return(Fraction(0, 1))

\* rate / conversion_factor if conversion_factor > 0 else 0
StockUomRate(rate, conversion_factor) ==
    IF conversion_factor > 0 THEN TrueDiv(rate, conversion_factor)
    ELSE Return(Fraction(0, 1))

\* the amount taken from qty instead of stock_qty
CalculateItem_QtyAmount(item) ==
    IF item.t # "dict" THEN Raise("AttributeError")
    ELSE
    LET qty == flt(Get(item, "qty", Num(0)))
        rate == flt(Get(item, "rate", Num(0)))
        conversion_factor == flt(Get(item, "conversion_factor", Num(1)))
        people_qty == flt(Get(item, "custom__people_qty", Num(0)))
        stock_qty == qty * conversion_factor
        amount == qty * rate
        stock_uom_rate == StockUomRate(rate, conversion_factor)
    IN  IF stock_uom_rate.raised THEN stock_uom_rate
        ELSE Return([item_code |-> item.item_code,
                     qty |-> qty,
                     rate |-> rate,
                     conversion_factor |-> conversion_factor,
                     stock_qty |-> stock_qty,
                     amount |-> amount,
                     stock_uom_rate |-> stock_uom_rate.value,
                     custom__people_qty |-> people_qty])

\* one pass of the loop body (lines 149-177)
CalculateItem(item) ==
    IF item.t # "dict" THEN Raise("AttributeError")
    ELSE
    LET qty == flt(Get(item, "qty", Num(0)))
        rate == flt(Get(item, "rate", Num(0)))
        conversion_factor == flt(Get(item, "conversion_factor", Num(1)))
        people_qty == flt(Get(item, "custom__people_qty", Num(0)))
        stock_qty == qty * conversion_factor
        amount == stock_qty * rate
        stock_uom_rate == StockUomRate(rate, conversion_factor)
    IN  IF stock_uom_rate.raised THEN stock_uom_rate
        ELSE Return([item_code |-> item.item_code,
                     qty |-> qty,
                     rate |-> rate,
                     conversion_factor |-> conversion_factor,
                     stock_qty |-> stock_qty,
                     amount |-> amount,
                     stock_uom_rate |-> stock_uom_rate.value,
                     custom__people_qty |-> people_qty])

\* for item in items (lines 148-177), from item i on
RECURSIVE CalculateLoop(_, _, _, _, _)
CalculateLoop(elems, i, results, total_people, total_amount) ==
    IF i > Len(elems)
    THEN Return([success |-> TRUE,
                 items |-> results,
                 total_people_qty |-> total_people,
                 total_amount |-> total_amount])
    ELSE LET r == CalculateItem(elems[i])
         IN  IF r.raised THEN r
             ELSE CalculateLoop(elems, i + 1, Append(results, r.value),
                                total_people + r.value.custom__people_qty,
                                total_amount + r.value.amount)

CalculationsBody(items_data) ==
    IF items_data = BadJson THEN Raise("JSONDecodeError")
    ELSE IF items_data.t # "list"
    THEN Return([success |-> FALSE, message |-> Translate("Invalid items data format")])
    ELSE IF "flt" \notin ModuleNames \cup CalculationsImports THEN Raise("NameError")
    ELSE CalculateLoop(items_data.elems, 1, <<>>, 0, 0)

get_opportunity_calculations(items_data) ==
    TryExcept(CalculationsBody(items_data), "Error calculating amounts: {0}")

-----------------------------------------------------------------------------
(* validate_opportunity_data *)

\* truthiness of a date field: None and a missing key are falsy
Truthy(d) == d.t = "date"

\* the three date checks of one row (lines 235-245), in the order the code
\* appends them
RowErrors(idx, item, opp_start_date, opp_end_date) ==
    LET event_start == Get(item, "custom_event_start_date", Null)
        event_end == Get(item, "custom_event_end_date", Null)
    IN  (IF Truthy(event_start) /\ Truthy(opp_start_date)
            /\ event_start.v < opp_start_date.v
         THEN <<[rule |-> "event start before opportunity start", row |-> idx]>>
         ELSE <<>>)
        \o
        (IF Truthy(event_end) /\ Truthy(opp_end_date)
            /\ event_end.v > opp_end_date.v
         THEN <<[rule |-> "event end after expected closing", row |-> idx]>>
         ELSE <<>>)
        \o
        (IF Truthy(event_start) /\ Truthy(event_end)
            /\ event_start.v > event_end.v
         THEN <<[rule |-> "event start after event end", row |-> idx]>>
         ELSE <<>>)

\* for idx, item in enumerate(items, 1) (lines 227-245), from row idx on
RECURSIVE ValidateLoop(_, _, _, _, _, _)
ValidateLoop(rows, idx, errors, total_people, opp_start_date, opp_end_date) ==
    IF idx > Len(rows)
    THEN Return([errors |-> errors, total_people |-> total_people])
    ELSE IF rows[idx].t # "dict" THEN Raise("AttributeError")
    ELSE IF "flt" \notin ModuleNames \cup ValidateImports THEN Raise("NameError")
    ELSE ValidateLoop(rows, idx + 1,
                      errors \o RowErrors(idx, rows[idx], opp_start_date, opp_end_date),
                      total_people + flt(Get(rows[idx], "custom__people_qty", Num(0))),
                      opp_start_date, opp_end_date)

ValidateBody(opportunity_data) ==
    IF opportunity_data = BadJson THEN Raise("JSONDecodeError")
    ELSE IF opportunity_data.t # "dict" THEN Raise("AttributeError")
    ELSE
    LET data == opportunity_data
        opp_start_date == Get(data, "custom_opportunity_start_date", Null)
        opp_end_date == Get(data, "expected_closing", Null)
    IN  \* line 217 calls flt, which this function never imports
        IF "flt" \notin ModuleNames \cup ValidateImports THEN Raise("NameError")
        ELSE
        LET max_people == flt(Get(data, "custom_opportunity_people_qty", Num(0)))
            opp_errors ==
                IF Truthy(opp_start_date) /\ Truthy(opp_end_date)
                   /\ opp_start_date.v > opp_end_date.v
                THEN <<[rule |-> "opportunity start after expected closing", row |-> 0]>>
                ELSE <<>>
            rows == data.items
            loop == ValidateLoop(rows, 1, opp_errors, 0, opp_start_date, opp_end_date)
        IN  IF loop.raised THEN loop
            ELSE LET errors == loop.value.errors
                     total_people == loop.value.total_people
                     warnings ==
                        IF max_people > 0 /\ total_people > max_people
                        THEN <<[rule |-> "total people exceeds maximum",
                                total |-> total_people, max |-> max_people]>>
                        ELSE <<>>
                 IN  Return([success |-> TRUE,
                             valid |-> (Len(errors) = 0),
                             errors |-> errors,
                             warnings |-> warnings,
                             total_people_qty |-> total_people])

validate_opportunity_data(opportunity_data) ==
    TryExcept(ValidateBody(opportunity_data), "Error validating data: {0}")

-----------------------------------------------------------------------------
(* validate_integration_status *)

\* frappe.get_all("Item", ...) with the count of UOM Conversion Detail rows
\* of each item found (lines 412-426)
RECURSIVE SampleItems(_)
SampleItems(codes) ==
    IF codes = {} THEN <<>>
    ELSE LET c == CHOOSE x \in codes : TRUE
             rest == SampleItems(codes \ {c})
         IN  IF items[c] = NoItem THEN rest
             ELSE <<[item |-> c,
                     stock_uom |-> items[c].stock_uom,
                     conversions_count |-> Len(items[c].uoms)]>> \o rest

\* set(expected_fields) - set(found_fields)
MissingFields(found_fields) == Range(expected_fields) \ found_fields

\* lines 436-439: whether the test result passes the endpoint check
EndpointOk(test_result) ==
    test_result.success = FALSE /\ ContainsRequired(test_result.message)

\* lines 433-441: the call of get_item_uoms_and_conversion("", None)
EndpointTest ==
    [ok |-> EndpointOk(get_item_uoms_and_conversion("", "").ret),
     logged |-> get_item_uoms_and_conversion("", "").logged]

\* the two tests of the final validation in the other order
FinalStatus_WarningFirst(errors, warnings) ==
    IF Len(warnings) > 0 THEN "warning"
    ELSE IF Len(errors) > 0 THEN "error"
    ELSE "healthy"

\* lines 443-447
FinalStatus(errors, warnings) ==
    IF Len(errors) > 0 THEN "error"
    ELSE IF Len(warnings) > 0 THEN "warning"
    ELSE "healthy"

\* lines 400-402: status_report["errors"]
StatusErrors(missing_fields) ==
    IF missing_fields # {}
    THEN <<[text |-> "Missing custom fields", fields |-> missing_fields]>>
    ELSE <<>>

\* lines 436-439: status_report["warnings"]
StatusWarnings(endpoint) ==
    IF endpoint.ok THEN <<>>
    ELSE <<[text |-> "API endpoint validation inconclusive"]>>

\* status_report["checks"] (lines 383-386, 404-409, 428-431, 437)
StatusChecks(found_fields, endpoint) ==
    [stock_settings |-> [allow_uom_conversion |-> allow_uom_conversion,
                         status |-> "OK"],
     custom_fields |-> [expected |-> expected_fields,
                        found |-> found_fields,
                        missing |-> MissingFields(found_fields),
                        status |-> IF MissingFields(found_fields) = {}
                                   THEN "OK" ELSE "ERROR"],
     uom_conversions |-> [sample_items |-> SampleItems(ItemCodes),
                          status |-> "OK"],
     api_endpoints |-> IF endpoint.ok THEN [status |-> "OK"]
                       ELSE [status |-> "absent"]]

\* the report of a run in which the Custom Field query found found_fields
StatusReport(found_fields, endpoint) ==
    [success |-> TRUE,
     integration_status |->
        FinalStatus(StatusErrors(MissingFields(found_fields)), StatusWarnings(endpoint)),
     checks |-> StatusChecks(found_fields, endpoint),
     warnings |-> StatusWarnings(endpoint),
     errors |-> StatusErrors(MissingFields(found_fields))]

IntegrationStatusBody ==
    IF custom_fields.raised THEN custom_fields
    ELSE Return(StatusReport(custom_fields.value, EndpointTest))

\* lines 451-457: the except clause around the body; the Error Log is written
\* by it or by the endpoint test
StatusTryExcept(body, endpoint) ==
    IF body.raised
    THEN [ret |-> [success |-> FALSE,
                   integration_status |-> "error",
                   message |-> Format(Translate("Error validating integration: {0}"),
                                      body.exc)],
          logged |-> TRUE]
    ELSE [ret |-> body.value, logged |-> endpoint.logged]

validate_integration_status == StatusTryExcept(IntegrationStatusBody, EndpointTest)

-----------------------------------------------------------------------------
(* Inputs *)

ItemCodeArgs == ItemCodes \cup {""}
UomArgs == UOMS \cup {""}

QtyValues == {Missing, Num(3)}
RateValues == {Null, Num(6)}
FactorValues == {Missing, Num(-2), Num(0), Num(4)}
PeopleValues == {Missing, Str, Num(2)}

LineItems ==
    [t : {"dict"}, item_code : ItemCodes, qty : QtyValues, rate : RateValues,
     conversion_factor : FactorValues, custom__people_qty : PeopleValues]

NotADict == [t |-> "str"]

Lists(S) == UNION {[1..n -> S] : n \in 0..MaxItems}

ItemsData ==
    {BadJson, NotAList}
        \cup {[t |-> "list", elems |-> l] : l \in Lists(LineItems \cup {NotADict})}

Date(n) == [t |-> "date", v |-> n]
DateValues == {Null, Date(1), Date(2)}

EventRows ==
    [t : {"dict"}, custom_event_start_date : DateValues,
     custom_event_end_date : DateValues, custom__people_qty : {Num(1), Num(2)}]

OpportunityData ==
    {BadJson}
        \cup [t : {"dict"}, custom_opportunity_start_date : DateValues,
              expected_closing : DateValues,
              custom_opportunity_people_qty : {Missing, Num(0), Num(2)},
              items : Lists(EventRows)]

\* the inputs of the sequences of calls
SomeItemsData ==
    {BadJson, NotAList,
     [t |-> "list", elems |-> <<>>],
     [t |-> "list", elems |-> <<[t |-> "dict", item_code |-> "ITEM-A", qty |-> Num(3),
                                 rate |-> Num(6), conversion_factor |-> Num(4),
                                 custom__people_qty |-> Num(2)],
                                NotADict>>],
     [t |-> "list", elems |-> <<[t |-> "dict", item_code |-> "ITEM-A", qty |-> Num(3),
                                 rate |-> Num(6), conversion_factor |-> Num(4),
                                 custom__people_qty |-> Num(2)]>>]}

SomeOpportunityData ==
    {BadJson,
     [t |-> "dict", custom_opportunity_start_date |-> Date(2),
      expected_closing |-> Date(1), custom_opportunity_people_qty |-> Num(2),
      items |-> <<>>]}

-----------------------------------------------------------------------------
(* The state machine *)

NoResult == [pending |-> TRUE]
NoCall == [op |-> "none", args |-> <<>>, logged |-> FALSE, looked_up |-> FALSE]
Pending(op, args) == [op |-> op, args |-> args, logged |-> FALSE, looked_up |-> FALSE]

Logged(b) == IF b THEN 1 ELSE 0

\* a store with no item, for the operations that read no document
InitEmptyStore ==
    /\ items = [c \in ItemCodes |-> NoItem]
    /\ allow_uom_conversion = FALSE
    /\ custom_fields = Return(Range(expected_fields))
    /\ conversion_lookup = [u \in UOMS |-> LookupNone]
    /\ lang \in Langs

\* the item documents of the sequences of calls
SomeItemDocs ==
    {NoItem,
     [doctype |-> "Item", stock_uom |-> "Nos", uoms |-> <<>>],
     [doctype |-> "Item", stock_uom |-> "Nos",
      uoms |-> <<[uom |-> "Box", conversion_factor |-> 12],
                 [uom |-> "Nos", conversion_factor |-> 1]>>],
     [doctype |-> "Item", stock_uom |-> "Box",
      uoms |-> <<[uom |-> "Nos", conversion_factor |-> 12]>>]}

Init ==
    /\ items \in [ItemCodes -> SomeItemDocs]
    /\ allow_uom_conversion \in BOOLEAN
    /\ custom_fields \in CustomFieldOutcomes
    /\ conversion_lookup \in [UOMS -> LookupOutcomes]
    /\ lang \in Langs
    /\ error_log = 0
    /\ call = NoCall
    /\ result = NoResult

\* one call: the operation returns r.ret and writes the Error Log if it
\* logged; nothing else changes
Respond(op, args, r, looked_up) ==
    /\ error_log < MaxLog
    /\ result' = r.ret
    /\ error_log' = error_log + Logged(r.logged)
    /\ call' = [op |-> op, args |-> args, logged |-> r.logged, looked_up |-> looked_up]
    /\ UNCHANGED store

\* the rows of an item with the stock UOM rows moved to the front
StockRowsFirst(item) ==
    [i \in 1..Len(SortedStockFirst(UomEntries(item))) |->
        [uom |-> SortedStockFirst(UomEntries(item))[i].uom,
         conversion_factor |-> SortedStockFirst(UomEntries(item))[i].conversion_factor]]

\* item.uoms.sort(...) on the cached document instead of sorted(uom_list, ...)
GetItemUomsWithConversion_SortInPlace(item_code) ==
    /\ error_log < MaxLog
    /\ result' = get_item_uoms_with_conversion(item_code).ret
    /\ error_log' = error_log + Logged(get_item_uoms_with_conversion(item_code).logged)
    /\ call' = [op |-> "get_item_uoms_with_conversion", args |-> <<item_code>>,
                logged |-> get_item_uoms_with_conversion(item_code).logged,
                looked_up |-> FALSE]
    /\ items' = IF get_item_uoms_with_conversion(item_code).ret.success
                   /\ allow_uom_conversion
                THEN [items EXCEPT ![item_code].uoms = StockRowsFirst(items[item_code])]
                ELSE items
    /\ UNCHANGED <<allow_uom_conversion, custom_fields, conversion_lookup, lang>>

GetItemUomsWithConversion(item_code) ==
    Respond("get_item_uoms_with_conversion", <<item_code>>,
            get_item_uoms_with_conversion(item_code), FALSE)

GetUomConversionFactor(item_code, uom) ==
    Respond("get_uom_conversion_factor", <<item_code, uom>>,
            get_uom_conversion_factor(item_code, uom),
            item_code # "" /\ uom # "")

GetOpportunityCalculations(items_data) ==
    Respond("get_opportunity_calculations", <<items_data>>,
            get_opportunity_calculations(items_data), FALSE)

ValidateOpportunityData(opportunity_data) ==
    Respond("validate_opportunity_data", <<opportunity_data>>,
            validate_opportunity_data(opportunity_data), FALSE)

GetItemUomsAndConversion(item_code, uom) ==
    Respond("get_item_uoms_and_conversion", <<item_code, uom>>,
            get_item_uoms_and_conversion(item_code, uom),
            get_item_uoms_and_conversion(item_code, uom).looked_up)

ValidateIntegrationStatus ==
    Respond("validate_integration_status", <<>>, validate_integration_status, FALSE)

Next ==
    \/ \E item_code \in ItemCodeArgs : GetItemUomsWithConversion(item_code)
    \/ \E item_code \in ItemCodeArgs, uom \in UomArgs : GetUomConversionFactor(item_code, uom)
    \/ \E items_data \in SomeItemsData : GetOpportunityCalculations(items_data)
    \/ \E opportunity_data \in SomeOpportunityData : ValidateOpportunityData(opportunity_data)
    \/ \E item_code \in ItemCodeArgs, uom \in UomArgs : GetItemUomsAndConversion(item_code, uom)
    \/ ValidateIntegrationStatus

Spec == Init /\ [][Next]_vars

\* the three item UOM operations as functions of the store and the arguments
InitUoms ==
    /\ items \in [ItemCodes -> ItemDocs \cup {NoItem}]
    /\ allow_uom_conversion \in BOOLEAN
    /\ custom_fields = Return(Range(expected_fields))
    /\ conversion_lookup \in [UOMS -> LookupOutcomes]
    /\ lang \in Langs
    /\ error_log = 0
    /\ call \in {Pending("get_item_uoms_with_conversion", <<c>>) : c \in ItemCodeArgs}
            \cup {Pending(op, <<c, u>>) :
                    op \in {"get_uom_conversion_factor", "get_item_uoms_and_conversion"},
                    c \in ItemCodeArgs, u \in UomArgs}
    /\ result = NoResult

NextUoms ==
    /\ result = NoResult
    /\ \/ /\ call.op = "get_item_uoms_with_conversion"
          /\ GetItemUomsWithConversion(call.args[1])
       \/ /\ call.op = "get_uom_conversion_factor"
          /\ GetUomConversionFactor(call.args[1], call.args[2])
       \/ /\ call.op = "get_item_uoms_and_conversion"
          /\ GetItemUomsAndConversion(call.args[1], call.args[2])

SpecUoms == InitUoms /\ [][NextUoms]_vars

\* get_opportunity_calculations as a function of its argument
InitCalc ==
    /\ InitEmptyStore
    /\ error_log = 0
    /\ call \in {Pending("get_opportunity_calculations", <<d>>) : d \in ItemsData}
    /\ result = NoResult

NextCalc ==
    /\ result = NoResult
    /\ GetOpportunityCalculations(call.args[1])

SpecCalc == InitCalc /\ [][NextCalc]_vars

\* validate_opportunity_data as a function of its argument
InitValidate ==
    /\ InitEmptyStore
    /\ error_log = 0
    /\ call \in {Pending("validate_opportunity_data", <<d>>) : d \in OpportunityData}
    /\ result = NoResult

NextValidate ==
    /\ result = NoResult
    /\ ValidateOpportunityData(call.args[1])

SpecValidate == InitValidate /\ [][NextValidate]_vars

TypeOK ==
    /\ error_log \in 0..MaxLog
    /\ allow_uom_conversion \in BOOLEAN
    /\ lang \in Langs

-----------------------------------------------------------------------------
(* Properties of get_opportunity_calculations *)

RECURSIVE SumSeq(_)
SumSeq(s) == IF s = <<>> THEN 0 ELSE Head(s) + SumSeq(Tail(s))

\* the number a line item holds under a key: the default when the key is
\* absent, 0 when the value is not a number
InputNumber(item, key, default) ==
    IF item[key] = Missing THEN default
    ELSE IF item[key].t = "num" THEN item[key].v
    ELSE 0

CalcReturned == call.op = "get_opportunity_calculations" /\ result # NoResult

\* the argument is a list whose elements are all dicts
LineItemList(items_data) ==
    /\ items_data.t = "list"
    /\ \A i \in 1..Len(items_data.elems) : items_data.elems[i].t = "dict"

\* C1: given a list of line items, get_opportunity_calculations returns
\* success true with one result per input item in input order, with
\* stock_qty = qty * conversion_factor and amount = stock_qty * rate for
\* every item, total_amount the sum of the item amounts and total_people_qty
\* the sum of the items' custom__people_qty (both 0 for an empty list).
C1_Calculations ==
    (CalcReturned /\ LineItemList(call.args[1])) =>
        LET elems == call.args[1].elems
            n == Len(elems)
        IN  /\ result.success = TRUE
            /\ Len(result.items) = n
            /\ \A i \in 1..n :
                LET r == result.items[i]
                IN  /\ r.item_code = elems[i].item_code
                    /\ r.qty = InputNumber(elems[i], "qty", 0)
                    /\ r.rate = InputNumber(elems[i], "rate", 0)
                    /\ r.conversion_factor = InputNumber(elems[i], "conversion_factor", 1)
                    /\ r.custom__people_qty = InputNumber(elems[i], "custom__people_qty", 0)
                    /\ r.stock_qty = r.qty * r.conversion_factor
                    /\ r.amount = r.stock_qty * r.rate
            /\ result.total_amount = SumSeq([i \in 1..n |-> result.items[i].amount])
            /\ result.total_people_qty =
                    SumSeq([i \in 1..n |-> InputNumber(elems[i], "custom__people_qty", 0)])

\* two line items with different amounts, both non-zero, have been summed
C1_Witness ==
    /\ CalcReturned
    /\ LineItemList(call.args[1])
    /\ Len(call.args[1].elems) = 2
    /\ result.success = TRUE
    /\ result.items[1].amount > 0
    /\ result.items[2].amount < 0
    /\ result.total_people_qty = 4

\* C2: the division rate / conversion_factor happens only for a strictly
\* positive conversion_factor: then stock_uom_rate is the quotient, for a
\* zero or negative conversion_factor it is 0, the call returns success
\* true, and no ZeroDivisionError ever reaches the error path.
C2_DivisionGuard ==
    CalcReturned =>
        /\ (result.success = FALSE /\ "arg" \in DOMAIN result.message)
                => result.message.arg # "ZeroDivisionError"
        /\ LineItemList(call.args[1]) =>
            /\ result.success = TRUE
            /\ \A i \in 1..Len(result.items) :
                LET r == result.items[i]
                IN  IF r.conversion_factor > 0
                    THEN /\ r.stock_uom_rate.den > 0
                         /\ r.stock_uom_rate.num * r.conversion_factor
                                = r.rate * r.stock_uom_rate.den
                    ELSE r.stock_uom_rate = [num |-> 0, den |-> 1]

\* one call with a zero conversion factor next to a positive one that
\* divides a non-zero rate into a proper fraction
C2_Witness ==
    /\ CalcReturned
    /\ LineItemList(call.args[1])
    /\ result.success = TRUE
    /\ \E i, k \in 1..Len(result.items) :
        /\ result.items[i].conversion_factor = 0 /\ result.items[i].rate # 0
        /\ result.items[k].conversion_factor > 0
        /\ result.items[k].stock_uom_rate = [num |-> 3, den |-> 2]

-----------------------------------------------------------------------------
(* Properties of the item UOM operations *)

AndConversionReturned ==
    call.op = "get_item_uoms_and_conversion" /\ result # NoResult

WithConversionReturned ==
    call.op = "get_item_uoms_with_conversion" /\ result # NoResult

\* the rows of the item's UOM table for a UOM
RowsFor(item, uom) == {i \in 1..Len(item.uoms) : item.uoms[i].uom = uom}

\* what the platform lookup yields for a UOM: a factor, or nothing
LookupYields(uom) == "conversion_factor" \in DOMAIN conversion_lookup[uom]

\* C3 as stated: for every item and every requested UOM the returned
\* conversion_factor is the item UOM row's factor if the table has a row for
\* the UOM, otherwise the platform lookup is called and its factor returned
\* if it yields one, otherwise 1.0.
C3_FallbackChain_AsStated ==
    (AndConversionReturned /\ result.success = TRUE /\ call.args[2] # "") =>
        LET item == items[call.args[1]]
            uom == call.args[2]
        IN  IF RowsFor(item, uom) # {}
            THEN \E i \in RowsFor(item, uom) :
                    result.conversion_factor = item.uoms[i].conversion_factor
            ELSE result.conversion_factor =
                    IF LookupYields(uom) THEN conversion_lookup[uom].conversion_factor
                    ELSE 1

\* C3, amended: the chain is followed only when the Stock Settings flag is
\* set and the item has UOM rows: the first row for the requested UOM gives
\* the factor; otherwise a request for the item's stock UOM gives 1.0 without
\* a lookup; otherwise the platform lookup is called and its factor returned
\* if it yields one, else 1.0.  With the flag unset or no UOM rows the factor
\* is 1.0 and the lookup is not called.
C3_FallbackChain ==
    (AndConversionReturned /\ result.success = TRUE /\ call.args[2] # "") =>
        LET item == items[call.args[1]]
            uom == call.args[2]
            rows == RowsFor(item, uom)
        IN  IF allow_uom_conversion /\ item.uoms # <<>>
            THEN IF rows # {}
                 THEN /\ result.conversion_factor =
                            item.uoms[CHOOSE i \in rows : \A j \in rows : i <= j].conversion_factor
                      /\ ~call.looked_up
                 ELSE IF uom = item.stock_uom
                 THEN result.conversion_factor = 1 /\ ~call.looked_up
                 ELSE /\ call.looked_up
                      /\ result.conversion_factor =
                            IF LookupYields(uom)
                            THEN conversion_lookup[uom].conversion_factor
                            ELSE 1
            ELSE result.conversion_factor = 1 /\ ~call.looked_up

\* the flag is set, the table has two rows for the requested UOM with
\* different factors, and the first one was returned
C3_Witness ==
    /\ AndConversionReturned
    /\ result.success = TRUE
    /\ allow_uom_conversion
    /\ LET item == items[call.args[1]]
       IN  /\ Len(item.uoms) = 2
           /\ item.uoms[1].uom = call.args[2]
           /\ item.uoms[2].uom = call.args[2]
           /\ item.uoms[1].conversion_factor = 12
           /\ item.uoms[2].conversion_factor = 1
           /\ result.conversion_factor = 12

\* the number of entries of a list equal to e
Count(list, e) == Cardinality({i \in 1..Len(list) : list[i] = e})

\* the entry an item UOM row stands for
EntryOf(item, i) ==
    [uom |-> item.uoms[i].uom,
     conversion_factor |-> item.uoms[i].conversion_factor,
     is_stock_uom |-> (item.uoms[i].uom = item.stock_uom)]

C10_SortedByIdx ==
    (WithConversionReturned /\ result.success = TRUE) =>
        LET item == items[call.args[1]]
        IN  (allow_uom_conversion /\ item.uoms # <<>>) =>
                result.uoms = [i \in 1..Len(item.uoms) |-> EntryOf(item, i)]

-----------------------------------------------------------------------------
(* Properties of validate_opportunity_data *)

ValidateReturned == call.op = "validate_opportunity_data" /\ result # NoResult

HasDate(d, key) == d[key].t = "date"

\* the date-ordering rules an opportunity violates; a rule with an absent
\* date is skipped
Violations(data) ==
    {[rule |-> "opportunity start after expected closing", row |-> 0] :
        x \in {y \in {0} :
            /\ HasDate(data, "custom_opportunity_start_date")
            /\ HasDate(data, "expected_closing")
            /\ data.custom_opportunity_start_date.v > data.expected_closing.v}}
    \cup
    {[rule |-> "event start before opportunity start", row |-> i] :
        i \in {j \in 1..Len(data.items) :
            /\ HasDate(data.items[j], "custom_event_start_date")
            /\ HasDate(data, "custom_opportunity_start_date")
            /\ data.items[j].custom_event_start_date.v
                    < data.custom_opportunity_start_date.v}}
    \cup
    {[rule |-> "event end after expected closing", row |-> i] :
        i \in {j \in 1..Len(data.items) :
            /\ HasDate(data.items[j], "custom_event_end_date")
            /\ HasDate(data, "expected_closing")
            /\ data.items[j].custom_event_end_date.v > data.expected_closing.v}}
    \cup
    {[rule |-> "event start after event end", row |-> i] :
        i \in {j \in 1..Len(data.items) :
            /\ HasDate(data.items[j], "custom_event_start_date")
            /\ HasDate(data.items[j], "custom_event_end_date")
            /\ data.items[j].custom_event_start_date.v
                    > data.items[j].custom_event_end_date.v}}

\* C5: for a well-formed opportunity validate_opportunity_data returns
\* success true with exactly one error per violated date-ordering rule
\* (opportunity start after expected closing; per row: event start before
\* opportunity start, event end after expected closing, event start after
\* event end), and valid is true exactly when the errors list is empty.
C5_DateRules ==
    (ValidateReturned /\ call.args[1].t = "dict") =>
        /\ result.success = TRUE
        /\ Range(result.errors) = Violations(call.args[1])
        /\ Len(result.errors) = Cardinality(Violations(call.args[1]))
        /\ result.valid = (result.errors = <<>>)

\* C6: validate_opportunity_data returns total_people_qty, the sum of
\* custom__people_qty over the line items, and a warning exactly when
\* custom_opportunity_people_qty is greater than 0 and the sum exceeds it;
\* the warning is never an error and does not change the valid flag.
C6_PeopleThreshold ==
    (ValidateReturned /\ call.args[1].t = "dict") =>
        LET data == call.args[1]
            total == SumSeq([i \in 1..Len(data.items) |->
                                InputNumber(data.items[i], "custom__people_qty", 0)])
            max_people == InputNumber(data, "custom_opportunity_people_qty", 0)
        IN  /\ result.success = TRUE
            /\ result.total_people_qty = total
            /\ (result.warnings # <<>>) = (max_people > 0 /\ total > max_people)
            /\ Len(result.errors) = Cardinality(Violations(data))
            /\ result.valid = (Violations(data) = {})

-----------------------------------------------------------------------------
(* Properties of validate_integration_status *)

StatusReturned == call.op = "validate_integration_status" /\ result # NoResult

\* C7: on a non-exception path of validate_integration_status,
\* checks.custom_fields.missing is exactly the expected fields not found in
\* the Custom Field table; integration_status is "error" exactly when errors
\* is non-empty, which is exactly when a field is missing, "warning" exactly
\* when errors is empty and warnings is not, "healthy" otherwise; and success
\* is true whatever the integration_status.
C7_StatusReport ==
    (StatusReturned /\ ~custom_fields.raised) =>
        /\ result.success = TRUE
        /\ result.checks.custom_fields.missing
                = {f \in Range(expected_fields) : f \notin custom_fields.value}
        /\ (result.errors # <<>>) = (result.checks.custom_fields.missing # {})
        /\ (result.integration_status = "error") = (result.errors # <<>>)
        /\ (result.integration_status = "warning")
                = (result.errors = <<>> /\ result.warnings # <<>>)
        /\ (result.integration_status = "healthy")
                = (result.errors = <<>> /\ result.warnings = <<>>)

\* a report with success true, a missing field, a warning and status "error"
C7_Witness ==
    /\ StatusReturned
    /\ result.success = TRUE
    /\ result.integration_status = "error"
    /\ result.checks.custom_fields.missing = {"custom_stock_qty"}
    /\ result.warnings # <<>>

-----------------------------------------------------------------------------
(* Properties of all six operations *)

Operations ==
    {"get_item_uoms_with_conversion", "get_uom_conversion_factor",
     "get_opportunity_calculations", "validate_opportunity_data",
     "get_item_uoms_and_conversion", "validate_integration_status"}

\* the keys of the dict an operation returns from its except clause
FailureKeys(op) ==
    IF op = "get_item_uoms_and_conversion"
    THEN {"success", "message", "uoms", "conversion_factor", "stock_uom"}
    ELSE IF op = "validate_integration_status"
    THEN {"success", "integration_status", "message"}
    ELSE {"success", "message"}

\* a platform lookup, the JSON parsing or a per-item computation of the call
\* raises in the current store
SomethingRaises(c) ==
    \/ /\ c.op = "get_item_uoms_with_conversion"
       /\ c.args[1] # "" /\ items[c.args[1]] = NoItem
    \/ /\ c.op = "get_uom_conversion_factor"
       /\ c.args[1] # "" /\ c.args[2] # ""
       /\ conversion_lookup[c.args[2]] = LookupRaises
    \/ /\ c.op = "get_opportunity_calculations"
       /\ \/ c.args[1] = BadJson
          \/ /\ c.args[1].t = "list"
             /\ \E i \in 1..Len(c.args[1].elems) : c.args[1].elems[i].t # "dict"
    \/ /\ c.op = "validate_opportunity_data"
       /\ c.args[1] = BadJson
    \/ /\ c.op = "get_item_uoms_and_conversion"
       /\ c.args[1] # ""
       /\ \/ items[c.args[1]] = NoItem
          \/ /\ allow_uom_conversion
             /\ items[c.args[1]].uoms # <<>>
             /\ c.args[2] # ""
             /\ RowsFor(items[c.args[1]], c.args[2]) = {}
             /\ c.args[2] # items[c.args[1]].stock_uom
             /\ conversion_lookup[c.args[2]] = LookupRaises
    \/ /\ c.op = "validate_integration_status"
       /\ custom_fields.raised

\* C8: no operation propagates an exception: every call returns a dict with
\* a success key; when a platform lookup, the JSON parsing or a per-item
\* computation raises, the operation adds one Error Log entry and returns
\* only success false and a message (no partial result), and
\* get_item_uoms_and_conversion also uoms = [], conversion_factor = 1.0 and
\* stock_uom = None.
C8_NoExceptionEscapes ==
    [][ /\ call'.op \in Operations
        /\ "success" \in DOMAIN result'
        /\ SomethingRaises(call') => call'.logged
        /\ call'.logged =>
            /\ error_log' = error_log + 1
            /\ DOMAIN result' = FailureKeys(call'.op)
            /\ result'.success = FALSE
            /\ call'.op = "get_item_uoms_and_conversion" =>
                /\ result'.uoms = <<>>
                /\ result'.conversion_factor = 1
                /\ result'.stock_uom = "None"
      ]_vars

\* a line item that is not a dict followed a line item that is one, and the
\* call logged the error
C8_Witness ==
    /\ call.op = "get_opportunity_calculations"
    /\ call.args[1].t = "list"
    /\ Len(call.args[1].elems) = 2
    /\ call.args[1].elems[1].t = "dict"
    /\ call.args[1].elems[2].t # "dict"
    /\ call.logged
    /\ error_log = 1
    /\ result.success = FALSE

\* C9: the operations only read the document store: item master data, the
\* Stock Settings flag, the Custom Field table (and the conversion factors
\* and translations) never change, so that repeating a call returns the same
\* result; an Error Log entry, written only when the call fails, is the only
\* write.
C9_ReadOnly ==
    [][ /\ store' = store
        /\ error_log' # error_log =>
            /\ error_log' = error_log + 1
            /\ call'.logged
            /\ result'.success = FALSE
        /\ (call'.op = call.op /\ call'.args = call.args) => result' = result
      ]_vars

\* a call found the item and returned its rows, after an earlier call had
\* failed and written the Error Log
C9_Witness ==
    /\ call.op = "get_item_uoms_with_conversion"
    /\ result.success = TRUE
    /\ Len(result.uoms) = 2
    /\ error_log = 1

-----------------------------------------------------------------------------
(* The flag-unset path of get_item_uoms_and_conversion *)

\* C11: when the Stock Settings flag is unset or the item has no UOM rows,
\* get_item_uoms_and_conversion returns conversion_factor 1.0 for every
\* requested UOM, a UOM other than the stock UOM included, and never calls
\* the platform conversion-factor lookup.
C11_NoLookupWithoutFlag ==
    (/\ AndConversionReturned
     /\ call.args[1] \in ItemCodes
     /\ items[call.args[1]] # NoItem
     /\ (~allow_uom_conversion \/ items[call.args[1]].uoms = <<>>)) =>
        /\ result.success = TRUE
        /\ result.conversion_factor = 1
        /\ ~call.looked_up
        /\ ~call.logged

\* the flag is unset, the requested UOM is not the stock UOM, the item has a
\* row with factor 12 for it and the platform lookup would yield 5: the call
\* returned 1.0
C11_Witness ==
    /\ AndConversionReturned
    /\ result.success = TRUE
    /\ ~allow_uom_conversion
    /\ call.args[2] \in UOMS
    /\ conversion_lookup[call.args[2]] = [kind |-> "dict", conversion_factor |-> 5]
    /\ LET item == items[call.args[1]]
       IN  /\ call.args[2] # item.stock_uom
           /\ Len(item.uoms) = 1
           /\ item.uoms[1] = [uom |-> call.args[2], conversion_factor |-> 12]
    /\ result.conversion_factor = 1

-----------------------------------------------------------------------------
(* The endpoint self-check of validate_integration_status *)

\* C12: the endpoint self-check always passes: in every store state
\* get_item_uoms_and_conversion with an empty item code returns success
\* false with a message containing "required" and makes no store lookup, so
\* that on a non-exception path of validate_integration_status
\* checks.api_endpoints is {status: OK}, warnings is empty and
\* integration_status is never "warning".
C12_EndpointCheckPasses ==
    /\ (AndConversionReturned /\ call.args[1] = "") =>
            /\ result.success = FALSE
            /\ ContainsRequired(result.message)
            /\ ~call.looked_up
            /\ ~call.logged
    /\ (StatusReturned /\ ~custom_fields.raised) =>
            /\ result.checks.api_endpoints = [status |-> "OK"]
            /\ result.warnings = <<>>
            /\ result.integration_status # "warning"

-----------------------------------------------------------------------------
(* get_item_uoms_with_conversion against get_item_uoms_and_conversion *)

\* the two lists hold the same entries, each as often in one as in the other
SameEntries(l1, l2) ==
    /\ Len(l1) = Len(l2)
    /\ \A i \in 1..Len(l1) : Count(l1, l1[i]) = Count(l2, l1[i])

\* l1 is l2 with the entries whose is_stock_uom is true moved to the front,
\* the order among them and among the others kept
StockMovedToFront(l1, l2) ==
    /\ Len(l1) = Len(l2)
    /\ \A i, j \in 1..Len(l1) : (l1[i].is_stock_uom /\ ~l1[j].is_stock_uom) => i < j
    /\ SelectSeq(l1, IsStock) = SelectSeq(l2, IsStock)
    /\ SelectSeq(l1, NotStock) = SelectSeq(l2, NotStock)

\* what get_item_uoms_with_conversion returned agrees with what
\* get_item_uoms_and_conversion returns for the same item and the UOM
AgreesWith(uom) ==
    /\ get_item_uoms_and_conversion(call.args[1], uom).ret.stock_uom = result.stock_uom
    /\ SameEntries(result.uoms, get_item_uoms_and_conversion(call.args[1], uom).ret.uoms)
    /\ StockMovedToFront(result.uoms,
                         get_item_uoms_and_conversion(call.args[1], uom).ret.uoms)

====
